---- MODULE Spec2Model ----
(***************************************************************************)
(* The pre-trained word-embedding index of the notebook                    *)
(* NLP_word_vectors_classification.ipynb: the load loop over the Glove     *)
(* file, the stacking/normalisation cell, get_emb, get_normed_emb and       *)
(* most_similar.                                                            *)
(*                                                                         *)
(* Conventions of the model                                                *)
(*  - a line of the file is the token sequence line.split() returns;       *)
(*  - a value token is a decimal literal; ParseFloat gives the number it   *)
(*    denotes (the literals of the model denote small integers, which      *)
(*    float32 represents exactly);                                         *)
(*  - Python ids are 0-based, TLA+ sequences 1-based: row id i of a        *)
(*    matrix is element i + 1 of the sequence that models it;              *)
(*  - a norm is kept as its square n2 (the norm is sqrt(n2)); a row of the *)
(*    normalised matrix is the pair [v, n2] that stands for v / sqrt(n2),  *)
(*    and is a row of NaN when n2 = 0 (0.0 / 0.0);                         *)
(*  - a cosine is kept as the signed square of its value, a reduced        *)
(*    fraction p / r (the sign of p is the sign of the cosine), or NaN;    *)
(*    arithmetic is exact, the rounding of float32 is not modelled.        *)
(***************************************************************************)
EXTENDS Integers, Sequences, FiniteSets, TLC

\* ------------------------------------------------------------------ bounds
MaxLines == 2
MaxTopn == 2
MaxQueryLen == 2
MaxVocab == 3

\* ------------------------------------------------------------------ constants
\* The notebook's MAX_NB_WORDS = 20000 and EMBEDDING_DIM = 100, at the scale of
\* the model: a vocabulary of MaxVocab words lies below, at and above
\* MAX_NB_WORDS, and EMBEDDING_DIM is the D of the well-formed lines.
MAX_NB_WORDS == 2
EMBEDDING_DIM == 2

\* ------------------------------------------------------------------ inputs
\* Lines a file of the model is made of: well-formed lines of D = 2 values
\* (a tie in direction, an opposite vector, an all-zero row, a repeated
\* word), and malformed ones (one value only, a non-numeric value, an empty
\* line).
FileLines ==
    { <<"cat", "1", "0">>, <<"dog", "2", "0">>, <<"Cat", "-1", "0">>,
      <<"Cat", "0", "0">>, <<"cat", "0", "1">>,
      <<"bad", "1">>, <<"bad", "x", "0">>, <<>> }

\* Words a list or single-word query of most_similar is made of.
QueryWords == {"cat", "Cat"}

\* Words get_emb and get_normed_emb are called with.
LookupWords == {"cat", "Cat", "ca", "dog"}

\* Words of the training texts: two that lines of the file carry, one that
\* none does.
TokenizerWords == {"cat", "dog", "the"}

RECURSIVE SeqsUpTo(_, _)
SeqsUpTo(S, n) ==
    IF n = 0 THEN { <<>> }
    ELSE LET shorter == SeqsUpTo(S, n - 1)
         IN  shorter \cup { Append(s, x) : s \in shorter, x \in S }

Files == SeqsUpTo(FileLines, MaxLines)

\* tokenizer.word_index: the words of the texts by rank, ids 1..V, V >= 1.
WordIndexes ==
    { [w \in { s[k] : k \in 1..Len(s) } |-> CHOOSE k \in 1..Len(s) : s[k] = w] :
        s \in { t \in SeqsUpTo(TokenizerWords, MaxVocab) :
                   /\ t # <<>>
                   /\ \A j, k \in 1..Len(t) : t[j] = t[k] => j = k } }

\* The argument `words` of most_similar: a list of words or a single word.
Queries ==
    { [list |-> TRUE, ws |-> s] : s \in SeqsUpTo(QueryWords, MaxQueryLen) }
    \cup { [list |-> FALSE, ws |-> <<w>>] : w \in QueryWords }

\* ------------------------------------------------------------------ values
None == [kind |-> "None"]

NoError == [kind |-> "none", line |-> 0]

\* float(token): the number a value token denotes, or "ValueError".
IsNumeric(tok) == tok \in {"0", "1", "2", "-1"}

ParseFloat(tok) ==
    CASE tok = "0" -> 0
      [] tok = "1" -> 1
      [] tok = "2" -> 2
      [] tok = "-1" -> 0 - 1

\* np.asarray(values[1:], dtype='float32')
ParseVector(values) == [k \in 1..(Len(values) - 1) |-> ParseFloat(values[k + 1])]

CanParse(values) == \A k \in 2..Len(values) : IsNumeric(values[k])

\* dict.__setitem__
DictSet(d, k, v) == [x \in (DOMAIN d) \cup {k} |-> IF x = k THEN v ELSE d[x]]

EmptyDict == [x \in {} |-> 0]

\* {v: k for k, v in embeddings_index.items()}
InvertDict(d) ==
    [i \in { d[w] : w \in DOMAIN d } |-> CHOOSE w \in DOMAIN d : d[w] = i]

RECURSIVE SumSq(_)
SumSq(v) == IF v = <<>> THEN 0 ELSE Head(v) * Head(v) + SumSq(Tail(v))

RECURSIVE Dot(_, _)
Dot(u, v) ==
    IF u = <<>> \/ v = <<>> THEN 0 ELSE Head(u) * Head(v) + Dot(Tail(u), Tail(v))

VecAdd(u, v) == [k \in 1..Len(u) |-> u[k] + v[k]]

\* ------------------------------------------------------------------ state
VARIABLES
    file,                     \* the lines of glove100K.100d.txt
    pc,                       \* "load", "loaded", "ready", "returned", "error"
    lineno,                   \* lines the load loop has consumed
    word_idx,
    embeddings_index,
    embeddings_vectors,
    inv_index,
    glove_embeddings,
    glove_norms,
    glove_embeddings_normed,
    error,                    \* the exception that stopped a cell of the load
    ret,                      \* the call of the running cell and its outcome
    memo,                     \* a call and its outcome, kept from an earlier cell
    readers,                  \* the call each concurrent reader is in, its locals
    word_index,               \* tokenizer.word_index: word -> id, ids 1..V
    nb_words,
    embedding_matrix,
    nb_words_in_matrix,
    items,                    \* items of word_index the initializer loop has left
    mpc                       \* the initializer cell: "off", "loop", "done", "error"

\* What the load cell builds, and what the stacking cell adds to it.
loadVars == << lineno, word_idx, embeddings_index, embeddings_vectors, inv_index >>

derivedVars == << glove_norms, glove_embeddings_normed >>

\* What the embedding-matrix initializer cell works on.
matrixVars ==
    << word_index, nb_words, embedding_matrix, nb_words_in_matrix, items, mpc >>

vars ==
    << file, pc, loadVars, glove_embeddings, derivedVars, error, ret, memo,
       readers, matrixVars >>

NoCall == [op |-> "none"]

\* The threads that query the loaded index at the same time.
Readers == {"r1", "r2"}

\* query_emb = 0
IntZero == [kind |-> "int", base |-> 0 - 1, val |-> <<>>]

\* A reader that is in no call.
IdleReader ==
    [pc |-> "idle", op |-> "none", arg |-> [list |-> FALSE, ws |-> <<>>],
     topn |-> 0, k |-> 0, q |-> IntZero, res |-> None]

Init ==
    /\ file \in Files
    /\ pc = "load"
    /\ lineno = 0
    /\ word_idx = 0
    /\ embeddings_index = EmptyDict
    /\ embeddings_vectors = <<>>
    /\ inv_index = EmptyDict
    /\ glove_embeddings = <<>>
    /\ glove_norms = <<>>
    /\ glove_embeddings_normed = <<>>
    /\ error = NoError
    /\ ret = NoCall
    /\ memo = NoCall
    /\ readers = [r \in Readers |-> IdleReader]
    /\ word_index = EmptyDict
    /\ nb_words = 0
    /\ embedding_matrix = <<>>
    /\ nb_words_in_matrix = 0
    /\ items = {}
    /\ mpc = "off"

\* ------------------------------------------------------------------ load
\* One iteration of `for line in f:`.
LoadLine ==
    /\ pc = "load"
    /\ lineno < Len(file)
    /\ LET values == file[lineno + 1]
       IN  /\ lineno' = lineno + 1
           /\ IF values = <<>>
              THEN \* word = values[0] on an empty list
                   /\ pc' = "error"
                   /\ error' = [kind |-> "IndexError", line |-> lineno + 1]
                   /\ UNCHANGED << word_idx, embeddings_index, embeddings_vectors >>
              ELSE IF ~CanParse(values)
              THEN \* np.asarray(..., dtype='float32') on a non-numeric token
                   /\ pc' = "error"
                   /\ error' = [kind |-> "ValueError", line |-> lineno + 1]
                   /\ UNCHANGED << word_idx, embeddings_index, embeddings_vectors >>
              ELSE /\ embeddings_index' = DictSet(embeddings_index, values[1], word_idx)
                   /\ embeddings_vectors' = Append(embeddings_vectors, ParseVector(values))
                   /\ word_idx' = word_idx + 1
                   /\ UNCHANGED << pc, error >>
    /\ UNCHANGED << file, inv_index, glove_embeddings, derivedVars, ret, memo,
                    readers, matrixVars >>

\* The end of the load cell: f.close() and the inverse index.
LoadDone ==
    /\ pc = "load"
    /\ lineno = Len(file)
    /\ inv_index' = InvertDict(embeddings_index)
    /\ pc' = "loaded"
    /\ UNCHANGED << file, lineno, word_idx, embeddings_index, embeddings_vectors,
                    glove_embeddings, derivedVars, error, ret, memo,
                    readers, matrixVars >>

\* np.vstack accepts a non-empty list of arrays of one length.
CanStack(vectors) ==
    /\ vectors # <<>>
    /\ \A k \in 1..Len(vectors) : Len(vectors[k]) = Len(vectors[1])

\* The stacking cell: glove_embeddings, glove_norms, glove_embeddings_normed.
StackCell ==
    /\ pc = "loaded"
    /\ IF CanStack(embeddings_vectors)
       THEN /\ glove_embeddings' = embeddings_vectors
            /\ glove_norms' = [k \in 1..Len(embeddings_vectors) |->
                                  SumSq(embeddings_vectors[k])]
            /\ glove_embeddings_normed' =
                   [k \in 1..Len(embeddings_vectors) |->
                       [v |-> embeddings_vectors[k],
                        n2 |-> SumSq(embeddings_vectors[k])]]
            /\ pc' = "ready"
            /\ UNCHANGED error
       ELSE /\ pc' = "error"
            /\ error' = [kind |-> "ValueError", line |-> 0]
            /\ UNCHANGED << glove_embeddings, derivedVars >>
    /\ UNCHANGED << file, loadVars, ret, memo,
                    readers, matrixVars >>

\* ------------------------------------------------------------------ lookup
\* str.lower on the words of the model.
Lower(word) == IF word = "Cat" THEN "cat" ELSE word

\* get_emb with a case-folded key.
get_emb_CaseFold(word) ==
    IF Lower(word) \in DOMAIN embeddings_index
    THEN [kind |-> "array", base |-> embeddings_index[Lower(word)],
          val |-> glove_embeddings[embeddings_index[Lower(word)] + 1]]
    ELSE None

\* get_emb with the row after the one the index names.
get_emb_NextRow(word) ==
    IF word \in DOMAIN embeddings_index
    THEN LET i == (embeddings_index[word] + 1) % Len(glove_embeddings)
         IN  [kind |-> "array", base |-> i, val |-> glove_embeddings[i + 1]]
    ELSE None

\* get_emb: glove_embeddings[idx] is a view of row idx of the matrix (numpy
\* basic indexing), `base` names the row it aliases.
get_emb(word) ==
    IF word \in DOMAIN embeddings_index
    THEN [kind |-> "array", base |-> embeddings_index[word],
          val |-> glove_embeddings[embeddings_index[word] + 1]]
    ELSE None

get_normed_emb(word) ==
    IF word \in DOMAIN embeddings_index
    THEN [kind |-> "normed", base |-> embeddings_index[word],
          val |-> glove_embeddings_normed[embeddings_index[word] + 1]]
    ELSE None

\* ------------------------------------------------------------------ cosines
NaN == [nan |-> TRUE, p |-> 0, r |-> 1]

Abs(n) == IF n < 0 THEN 0 - n ELSE n

RECURSIVE GCD(_, _)
GCD(a, b) == IF b = 0 THEN a ELSE GCD(b, a % b)

\* The cosine num / sqrt(den2) as the reduced signed square of its value.
SignedSq(num, den2) ==
    LET sq == num * num
        g == GCD(den2, sq)
    IN  [nan |-> FALSE,
         p |-> (IF num < 0 THEN 0 - 1 ELSE 1) * (sq \div g),
         r |-> den2 \div g]

\* a < b on floats: false whenever one of them is NaN.
FloatLess(a, b) == ~a.nan /\ ~b.nan /\ a.p * b.r < b.p * a.r

\* The order np.argsort sorts by: NaN sorts after every number.
SortsBefore(a, b) == ~a.nan /\ (b.nan \/ a.p * b.r < b.p * a.r)

\* One entry of np.dot(glove_embeddings_normed, query_emb), query_emb being
\* qn.v / sqrt(qn.n2).
Cosine(row, qn) ==
    IF row.n2 = 0 \/ qn.n2 = 0 THEN NaN
    ELSE SignedSq(Dot(row.v, qn.v), row.n2 * qn.n2)

\* np.argsort(cosines): the ids in ascending order of score. Rows of equal
\* score keep their order (the sort of numpy's default kind is an insertion
\* sort on arrays this small).
argsort(cosines) ==
    LET n == Len(cosines)
        Precedes(i, j) ==
            \/ SortsBefore(cosines[i], cosines[j])
            \/ (~SortsBefore(cosines[j], cosines[i]) /\ i < j)
        Rank(i) == Cardinality({ j \in 1..n : Precedes(j, i) })
    IN  [k \in 1..n |-> (CHOOSE i \in 1..n : Rank(i) = k - 1) - 1]

\* idxs[::-1]
Reversed(s) == [k \in 1..Len(s) |-> s[Len(s) + 1 - k]]

\* idxs[:topn], topn >= 0
Prefix(s, n) == SubSeq(s, 1, IF n < Len(s) THEN n ELSE Len(s))

\* ------------------------------------------------------------------ most_similar
\* query_emb += e that skips a word get_emb does not know.
IAddSkipNone(q, e, G) ==
    IF e.kind = "None"
    THEN [err |-> "none", q |-> q, G |-> G]
    ELSE LET v == G[e.base + 1]
         IN  IF q.kind = "int"
             THEN [err |-> "none",
                   q |-> [kind |-> "array", base |-> 0 - 1, val |-> v],
                   G |-> G]
             ELSE [err |-> "none", q |-> [q EXCEPT !.val = VecAdd(q.val, v)], G |-> G]

\* query_emb -= e on an array.
IAddMinus(q, e, G) ==
    IF e.kind = "None"
    THEN [err |-> "TypeError", q |-> q, G |-> G]
    ELSE LET v == G[e.base + 1]
         IN  IF q.kind = "int"
             THEN [err |-> "none",
                   q |-> [kind |-> "array", base |-> 0 - 1, val |-> v],
                   G |-> G]
             ELSE [err |-> "none",
                   q |-> [q EXCEPT !.val = [k \in 1..Len(v) |-> q.val[k] - v[k]]],
                   G |-> G]

\* query_emb += e where the first word's row is taken as it is (the view
\* get_emb returns, not the copy 0 + e), so that the next += writes the row.
IAddAlias(q, e, G) ==
    IF e.kind = "None"
    THEN [err |-> "TypeError", q |-> q, G |-> G]
    ELSE LET v == G[e.base + 1]
         IN  IF q.kind = "int"
             THEN [err |-> "none",
                   q |-> [kind |-> "array", base |-> e.base, val |-> v],
                   G |-> G]
             ELSE LET sum == VecAdd(q.val, v)
                  IN  [err |-> "none",
                       q |-> [q EXCEPT !.val = sum],
                       G |-> IF q.base >= 0
                             THEN [G EXCEPT ![q.base + 1] = sum]
                             ELSE G]

\* query_emb += e, G being glove_embeddings. On the int 0 the sum 0 + e is a
\* new array; on an array the sum is written in place into the array
\* query_emb names (base = -1: an array of its own; base >= 0: row base of G).
IAdd(q, e, G) ==
    IF e.kind = "None"
    THEN [err |-> "TypeError", q |-> q, G |-> G]
    ELSE LET v == G[e.base + 1]
         IN  IF q.kind = "int"
             THEN [err |-> "none",
                   q |-> [kind |-> "array", base |-> 0 - 1, val |-> v],
                   G |-> G]
             ELSE LET sum == VecAdd(q.val, v)
                  IN  [err |-> "none",
                       q |-> [q EXCEPT !.val = sum],
                       G |-> IF q.base >= 0
                             THEN [G EXCEPT ![q.base + 1] = sum]
                             ELSE G]

\* for word in words: query_emb += get_emb(word)
RECURSIVE SumWords(_, _, _)
SumWords(ws, q, G) ==
    IF ws = <<>> THEN [err |-> "none", q |-> q, G |-> G]
    ELSE LET step == IAdd(q, get_emb(Head(ws)), G)
         IN  IF step.err # "none" THEN step
             ELSE SumWords(Tail(ws), step.q, step.G)

\* The query vector of most_similar before it is normalised.
ResolveQuery(words) ==
    IF words.list
    THEN SumWords(words.ws, IntZero, glove_embeddings)
    ELSE [err |-> "none", q |-> get_emb(words.ws[1]), G |-> glove_embeddings]

\* query_emb / np.linalg.norm(query_emb) for an array query_emb: the pair
\* that stands for v / sqrt(n2); an all-zero vector has n2 = 0 and gives NaN
\* entries (0.0 / 0.0, a warning and no exception).
Normalize(q) == [v |-> q.val, n2 |-> SumSq(q.val)]

\* [(inv_index[idx], cosines[idx]) for idx in idxs]
Pairs(idxs, cosines) ==
    IF \E k \in 1..Len(idxs) : idxs[k] \notin DOMAIN inv_index
    THEN [kind |-> "KeyError"]
    ELSE [kind |-> "list",
          pairs |-> [k \in 1..Len(idxs) |->
                        [word |-> inv_index[idxs[k]],
                         score |-> cosines[idxs[k] + 1]]]]

\* np.dot(glove_embeddings_normed, query_emb)
Cosines(qn) ==
    [k \in 1..Len(glove_embeddings_normed) |-> Cosine(glove_embeddings_normed[k], qn)]

\* most_similar(words, topn): what it returns or raises (res) and the matrix
\* glove_embeddings it leaves (G).
\*  - query_emb is None (a single unknown word): np.linalg.norm(None) raises
\*    TypeError;
\*  - query_emb is still the int 0 (an empty list): 0 / norm(0) is the scalar
\*    NaN, np.dot(matrix, scalar) is an N x D matrix, the ids of its argsort
\*    are rows and inv_index[row] raises TypeError (unhashable).
most_similar(words, topn) ==
    LET r == ResolveQuery(words)
    IN  IF r.err # "none" THEN [res |-> [kind |-> r.err], G |-> r.G]
        ELSE IF r.q.kind = "None" THEN [res |-> [kind |-> "TypeError"], G |-> r.G]
        ELSE IF r.q.kind = "int" THEN [res |-> [kind |-> "TypeError"], G |-> r.G]
        ELSE LET cosines == Cosines(Normalize(r.q))
                 idxs == Prefix(Reversed(argsort(cosines)), topn)
             IN  [res |-> Pairs(idxs, cosines), G |-> r.G]

\* ------------------------------------------------------------------ calls
Single(w) == [list |-> FALSE, ws |-> <<w>>]

GetEmb(w) ==
    /\ pc = "ready"
    /\ ret' = [op |-> "get_emb", arg |-> Single(w), topn |-> 0, res |-> get_emb(w)]
    /\ pc' = "returned"
    /\ UNCHANGED << file, loadVars, glove_embeddings, derivedVars, error, memo,
                    readers, matrixVars >>

GetNormedEmb(w) ==
    /\ pc = "ready"
    /\ ret' = [op |-> "get_normed_emb", arg |-> Single(w), topn |-> 0,
               res |-> get_normed_emb(w)]
    /\ pc' = "returned"
    /\ UNCHANGED << file, loadVars, glove_embeddings, derivedVars, error, memo,
                    readers, matrixVars >>

MostSimilar(words, topn) ==
    /\ pc = "ready"
    /\ LET out == most_similar(words, topn)
       IN  /\ ret' = [op |-> "most_similar", arg |-> words, topn |-> topn,
                      res |-> out.res]
           /\ glove_embeddings' = out.G
    /\ pc' = "returned"
    /\ UNCHANGED << file, loadVars, derivedVars, error, memo,
                    readers, matrixVars >>

\* The cell of a call is over: its value is shown and the kernel is idle again.
CellDone ==
    /\ pc = "returned"
    /\ pc' = "ready"
    /\ ret' = NoCall
    /\ UNCHANGED << file, loadVars, glove_embeddings, derivedVars, error, memo,
                    readers, matrixVars >>

\* The cell of a most_similar call is over and the reader of the notebook
\* keeps its outcome, to compare it with what a later cell of the same call
\* gives.
Remember ==
    /\ pc = "returned"
    /\ ret.op = "most_similar"
    /\ memo = NoCall
    /\ memo' = ret
    /\ pc' = "ready"
    /\ ret' = NoCall
    /\ UNCHANGED << file, loadVars, glove_embeddings, derivedVars, error,
                    readers, matrixVars >>

Next ==
    \/ LoadLine
    \/ LoadDone
    \/ StackCell
    \/ \E w \in LookupWords : GetEmb(w)
    \/ \E w \in LookupWords : GetNormedEmb(w)
    \/ \E words \in Queries, topn \in 1..MaxTopn : MostSimilar(words, topn)
    \/ CellDone

Spec == Init /\ [][Next]_vars

\* The same cells, with a reader who keeps one outcome of most_similar.
NextHist == Next \/ Remember

SpecHist == Init /\ [][NextHist]_vars

\* ------------------------------------------------------------------ readers
\* Threads that call get_emb and most_similar on the loaded index with no
\* lock. A call of most_similar is a sequence of steps, each of them one
\* statement or loop iteration of its body, and the steps of the readers
\* interleave in any order. The locals of a call (query_emb, the position in
\* `words`) are the reader's own; the dictionaries and matrices are shared.

\* The queries the readers make: single words, and lists short enough for
\* two readers to be followed through every interleaving, with none, one and
\* two in-place sums.
ReaderQueries ==
    { [list |-> FALSE, ws |-> <<"cat">>], [list |-> FALSE, ws |-> <<"Cat">>],
      [list |-> TRUE, ws |-> <<>>], [list |-> TRUE, ws |-> <<"cat">>],
      [list |-> TRUE, ws |-> <<"cat", "Cat">>],
      [list |-> TRUE, ws |-> <<"Cat", "cat">>],
      [list |-> TRUE, ws |-> <<"cat", "Cat", "cat">>] }

\* What the array query_emb names holds now: a view reads the row it aliases.
ViewOf(q) ==
    IF q.kind = "array" /\ q.base >= 0
    THEN [q EXCEPT !.val = glove_embeddings[q.base + 1]]
    ELSE q

Finished(rd, res) == [rd EXCEPT !.pc = "done", !.res = res]

\* Reader r calls get_emb(w): one dictionary lookup and one indexing.
ReaderGetEmb(r, w) ==
    /\ pc = "ready"
    /\ readers[r].pc = "idle"
    /\ readers' = [readers EXCEPT ![r] =
                      [IdleReader EXCEPT !.pc = "done", !.op = "get_emb",
                                         !.arg = Single(w), !.res = get_emb(w)]]
    /\ UNCHANGED << file, pc, loadVars, glove_embeddings, derivedVars, error, ret,
                    memo, matrixVars >>

\* Reader r enters most_similar(words, topn): query_emb = 0. topn is bound
\* here and first used by the slice [:topn]; its value is drawn at that use.
ReaderCall(r, words) ==
    /\ pc = "ready"
    /\ readers[r].pc = "idle"
    /\ readers' = [readers EXCEPT ![r] =
                      [IdleReader EXCEPT !.pc = "sum", !.op = "most_similar",
                                         !.arg = words]]
    /\ UNCHANGED << file, pc, loadVars, glove_embeddings, derivedVars, error, ret,
                    memo, matrixVars >>

\* One iteration of `for word in words: query_emb += get_emb(word)`, the exit
\* of the loop over an empty list, or `query_emb = get_emb(words)`.
ReaderSum(r) ==
    /\ readers[r].pc = "sum"
    /\ LET rd == readers[r]
           ws == rd.arg.ws
       IN  IF ~rd.arg.list
           THEN /\ readers' = [readers EXCEPT ![r] =
                                  [rd EXCEPT !.pc = "norm", !.q = get_emb(ws[1])]]
                /\ UNCHANGED glove_embeddings
           ELSE IF rd.k = Len(ws)
           THEN /\ readers' = [readers EXCEPT ![r] = [rd EXCEPT !.pc = "norm"]]
                /\ UNCHANGED glove_embeddings
           ELSE LET step == IAdd(ViewOf(rd.q), get_emb(ws[rd.k + 1]), glove_embeddings)
                IN  /\ glove_embeddings' = step.G
                    /\ readers' = [readers EXCEPT ![r] =
                           IF step.err # "none"
                           THEN Finished(rd, [kind |-> step.err])
                           ELSE [rd EXCEPT !.k = rd.k + 1, !.q = step.q,
                                           !.pc = IF rd.k + 1 = Len(ws)
                                                  THEN "norm" ELSE "sum"]]
    /\ UNCHANGED << file, pc, loadVars, derivedVars, error, ret, memo, matrixVars >>

\* query_emb = query_emb / np.linalg.norm(query_emb): a new array, or
\* TypeError on None; the int 0 gives the scalar NaN.
ReaderNorm(r) ==
    /\ readers[r].pc = "norm"
    /\ LET rd == readers[r]
           qn == Normalize(ViewOf(rd.q))
       IN  readers' = [readers EXCEPT ![r] =
               IF rd.q.kind = "None" THEN Finished(rd, [kind |-> "TypeError"])
               ELSE IF rd.q.kind = "int" THEN [rd EXCEPT !.pc = "rank"]
               ELSE [rd EXCEPT !.pc = "rank",
                               !.q = [kind |-> "unit", base |-> 0 - 1, val |-> qn]]]
    /\ UNCHANGED << file, pc, loadVars, glove_embeddings, derivedVars, error, ret,
                    memo, matrixVars >>

\* The dot product, the sort, the slice and the list that is returned.
ReaderRank(r, topn) ==
    /\ readers[r].pc = "rank"
    /\ LET rd == readers[r]
       IN  readers' = [readers EXCEPT ![r] =
               IF rd.q.kind = "int"
               THEN Finished([rd EXCEPT !.topn = topn], [kind |-> "TypeError"])
               ELSE LET cosines == Cosines(rd.q.val)
                        idxs == Prefix(Reversed(argsort(cosines)), topn)
                    IN  Finished([rd EXCEPT !.topn = topn], Pairs(idxs, cosines))]
    /\ UNCHANGED << file, pc, loadVars, glove_embeddings, derivedVars, error, ret,
                    memo, matrixVars >>

\* The caller has the value, or the exception, of its call.
ReaderReturn(r) ==
    /\ readers[r].pc = "done"
    /\ readers' = [readers EXCEPT ![r] = IdleReader]
    /\ UNCHANGED << file, pc, loadVars, glove_embeddings, derivedVars, error, ret,
                    memo, matrixVars >>

NextReaders ==
    \/ LoadLine
    \/ LoadDone
    \/ StackCell
    \/ \E r \in Readers, w \in LookupWords : ReaderGetEmb(r, w)
    \/ \E r \in Readers, words \in ReaderQueries : ReaderCall(r, words)
    \/ \E r \in Readers : ReaderSum(r)
    \/ \E r \in Readers : ReaderNorm(r)
    \/ \E r \in Readers, topn \in 1..MaxTopn : ReaderRank(r, topn)
    \/ \E r \in Readers : ReaderReturn(r)

SpecReaders == Init /\ [][NextReaders]_vars

\* ------------------------------------------------------------------ caller
\* A cell that keeps the array a lookup returned and writes it in place,
\* v = get_emb(w); v[:] = 0, or the same on get_normed_emb(w). The array is a
\* view of row `base` of the matrix it was taken from, so the write lands in
\* that row. An all-zero row of glove_embeddings_normed is the vector 0 over
\* the norm 1.
CallerWritesInPlace ==
    /\ pc = "returned"
    /\ ret.op \in {"get_emb", "get_normed_emb"}
    /\ ret.res # None
    /\ LET row == ret.res.base + 1
           zero == [k \in 1..Len(glove_embeddings[row]) |-> 0]
       IN  IF ret.op = "get_emb"
           THEN /\ glove_embeddings' = [glove_embeddings EXCEPT ![row] = zero]
                /\ UNCHANGED glove_embeddings_normed
           ELSE /\ glove_embeddings_normed' =
                       [glove_embeddings_normed EXCEPT ![row] = [v |-> zero, n2 |-> 1]]
                /\ UNCHANGED glove_embeddings
    /\ pc' = "ready"
    /\ ret' = NoCall
    /\ UNCHANGED << file, loadVars, glove_norms, error, memo, readers, matrixVars >>

NextCaller == Next \/ CallerWritesInPlace

SpecCaller == Init /\ [][NextCaller]_vars

\* ------------------------------------------------------------------ initializer
\* The tokenizer cell: word_index = tokenizer.word_index.
FitTokenizer(wi) ==
    /\ pc = "ready"
    /\ mpc = "off"
    /\ word_index' = wi
    /\ mpc' = "fitted"
    /\ UNCHANGED << file, pc, loadVars, glove_embeddings, derivedVars, error, ret,
                    memo, readers, nb_words, embedding_matrix, nb_words_in_matrix,
                    items >>

\* np.zeros((n, d))
Zeros(n, d) == [i \in 1..n |-> [k \in 1..d |-> 0]]

\* The head of the initializer cell, up to the `for`.
MatrixStart ==
    /\ mpc = "fitted"
    /\ nb_words_in_matrix' = 0
    /\ nb_words' = IF MAX_NB_WORDS < Cardinality(DOMAIN word_index)
                   THEN MAX_NB_WORDS
                   ELSE Cardinality(DOMAIN word_index)
    /\ embedding_matrix' = Zeros(nb_words', EMBEDDING_DIM)
    /\ items' = DOMAIN word_index
    /\ mpc' = "loop"
    /\ UNCHANGED << file, pc, loadVars, glove_embeddings, derivedVars, error, ret,
                    memo, readers, word_index >>

\* embedding_matrix[i] = v copies v into the row when v has the row's length,
\* and repeats it when v has one entry (numpy broadcasting).
CanAssignRow(v) == Len(v) = EMBEDDING_DIM \/ Len(v) = 1

RowOf(v) == [k \in 1..EMBEDDING_DIM |-> IF Len(v) = 1 THEN v[1] ELSE v[k]]

\* One iteration of `for word, i in word_index.items():`, in any order of the
\* items. An exception ends the cell; `line` of the error is not used here.
MatrixStep(word) ==
    /\ mpc = "loop"
    /\ word \in items
    /\ items' = items \ {word}
    /\ LET i == word_index[word]
           embedding_vector == get_emb(word)
       IN  IF i >= MAX_NB_WORDS \/ embedding_vector = None
           THEN UNCHANGED << embedding_matrix, nb_words_in_matrix, mpc, error >>
           ELSE IF i >= nb_words
           THEN \* row i of a matrix of nb_words rows
                /\ mpc' = "error"
                /\ error' = [kind |-> "IndexError", line |-> 0]
                /\ UNCHANGED << embedding_matrix, nb_words_in_matrix >>
           ELSE IF ~CanAssignRow(embedding_vector.val)
           THEN /\ mpc' = "error"
                /\ error' = [kind |-> "ValueError", line |-> 0]
                /\ UNCHANGED << embedding_matrix, nb_words_in_matrix >>
           ELSE /\ embedding_matrix' =
                       [embedding_matrix EXCEPT ![i + 1] = RowOf(embedding_vector.val)]
                /\ nb_words_in_matrix' = nb_words_in_matrix + 1
                /\ UNCHANGED << mpc, error >>
    /\ UNCHANGED << file, pc, loadVars, glove_embeddings, derivedVars, ret, memo,
                    readers, word_index, nb_words >>

\* The loop is over: print("added %d words in the embedding matrix").
MatrixDone ==
    /\ mpc = "loop"
    /\ items = {}
    /\ mpc' = "done"
    /\ UNCHANGED << file, pc, loadVars, glove_embeddings, derivedVars, error, ret,
                    memo, readers, word_index, nb_words, embedding_matrix,
                    nb_words_in_matrix, items >>

NextMatrix ==
    \/ LoadLine
    \/ LoadDone
    \/ StackCell
    \/ \E wi \in WordIndexes : FitTokenizer(wi)
    \/ MatrixStart
    \/ \E word \in TokenizerWords : MatrixStep(word)
    \/ MatrixDone

SpecMatrix == Init /\ [][NextMatrix]_vars

\* ------------------------------------------------------------------ properties
\* The words that are the first token of some line of the file.
FirstTokens == { file[k][1] : k \in { j \in 1..Len(file) : file[j] # <<>> } }

Called(op) == pc = "returned" /\ ret.op = op

\* The word a lookup, or a single-word query, was called with.
ArgWord == ret.arg.ws[1]

InVocabulary(ws) == \A k \in 1..Len(ws) : ws[k] \in DOMAIN embeddings_index

Min(a, b) == IF a < b THEN a ELSE b

\* C1: after the load loop, for every word w that is the first token of some
\* line of the file, get_emb(w) returns the D-entry raw vector parsed from a
\* line that carries w: row embeddings_index[w] of glove_embeddings is built
\* from line embeddings_index[w] of the file, whose first token is w.
C1_GetEmbReturnsSourceRow ==
    (Called("get_emb") /\ ArgWord \in FirstTokens) =>
        /\ ret.res.kind = "array"
        /\ ret.res.base = embeddings_index[ArgWord]
        /\ LET line == file[ret.res.base + 1]
           IN  /\ line[1] = ArgWord
               /\ Len(ret.res.val) = Len(file[1]) - 1
               /\ ret.res.val = [j \in 1..(Len(line) - 1) |-> ParseFloat(line[j + 1])]

\* A word that two lines carry was looked up, and the row of its last line
\* came back.
C1_Witness ==
    /\ Called("get_emb")
    /\ Len(file) = 2
    /\ file[1][1] = ArgWord
    /\ file[2][1] = ArgWord
    /\ file[1] # file[2]
    /\ ret.res.kind = "array"
    /\ ret.res.val = ParseVector(file[2])

\* C2: for every string w that is not exactly the first token of a loaded
\* line, get_emb(w) and get_normed_emb(w) return None; a prefix or a
\* case-folded form of a loaded word yields no vector.
C2_AbsentWordGivesNone ==
    ((Called("get_emb") \/ Called("get_normed_emb")) /\ ArgWord \notin FirstTokens)
        => ret.res = None

\* "Cat" and "ca" were looked up in a file that carries "cat" only.
C2_Witness ==
    /\ Called("get_emb") \/ Called("get_normed_emb")
    /\ ArgWord \in {"Cat", "ca"}
    /\ "cat" \in FirstTokens
    /\ ArgWord \notin FirstTokens
    /\ ret.res = None

\* C3: after loading any file of N lines, also one in which a word is the first
\* token of more than one line, embeddings_index is a bijection from the
\* vocabulary onto [0, N), N the number of matrix rows, and inv_index is its
\* exact inverse.
C3_IndexIsBijectionOntoRows ==
    (pc \in {"ready", "returned"}) =>
        LET N == Len(glove_embeddings)
        IN  /\ DOMAIN embeddings_index = FirstTokens
            /\ { embeddings_index[w] : w \in DOMAIN embeddings_index } = 0..(N - 1)
            /\ \A v, w \in DOMAIN embeddings_index :
                   embeddings_index[v] = embeddings_index[w] => v = w
            /\ DOMAIN inv_index = 0..(N - 1)
            /\ \A w \in DOMAIN embeddings_index : inv_index[embeddings_index[w]] = w
            /\ \A i \in 0..(N - 1) : embeddings_index[inv_index[i]] = i

\* a >= b on floats: false whenever one of them is NaN.
FloatGE(a, b) == ~a.nan /\ ~b.nan /\ a.p * b.r >= b.p * a.r

\* The scores most_similar computed for the query of the call in ret.
QueryCosines == Cosines(Normalize(ResolveQuery(ret.arg).q))

\* The ids of the rows the returned pairs name.
ReturnedIds == { embeddings_index[ret.res.pairs[k].word] : k \in 1..Len(ret.res.pairs) }

\* C4: for every in-vocabulary query and every topn >= 1, most_similar returns
\* exactly min(topn, N) pairs, the scores are non-increasing, and no row left
\* out has a score strictly greater than the score of a returned pair.
C4_TopKPrefixOfRanking ==
    (Called("most_similar") /\ ret.arg.ws # <<>> /\ InVocabulary(ret.arg.ws)) =>
        /\ ret.res.kind = "list"
        /\ LET pairs == ret.res.pairs
               N == Len(glove_embeddings)
           IN  /\ Len(pairs) = Min(ret.topn, N)
               /\ \A k \in 1..(Len(pairs) - 1) :
                      FloatGE(pairs[k].score, pairs[k + 1].score)
               /\ \A i \in (0..(N - 1)) \ ReturnedIds : \A k \in 1..Len(pairs) :
                      ~FloatLess(pairs[k].score, QueryCosines[i + 1])

\* C5: for every single word w of the vocabulary and every topn >= 1, the first
\* pair most_similar(w, topn) returns has the word w itself, also when another
\* word has a vector of the same direction.
C5_SelfIsFirst ==
    (Called("most_similar") /\ ~ret.arg.list /\ ArgWord \in DOMAIN embeddings_index) =>
        /\ ret.res.kind = "list"
        /\ ret.res.pairs[1].word = ArgWord

\* C6: in the result of most_similar, of two rows with equal scores the one
\* with the smaller vocabulary id comes first.
C6_TiesByAscendingId ==
    (Called("most_similar") /\ ret.res.kind = "list") =>
        \A j, k \in 1..Len(ret.res.pairs) :
            ( /\ j < k
              /\ ~ret.res.pairs[j].score.nan
              /\ ret.res.pairs[j].score = ret.res.pairs[k].score )
            => embeddings_index[ret.res.pairs[j].word]
                   < embeddings_index[ret.res.pairs[k].word]

ZeroNormQuery ==
    /\ InVocabulary(ret.arg.ws)
    /\ SumSq(ResolveQuery(ret.arg).q.val) = 0

\* C8: most_similar raises an error, and returns no list of pairs, whenever
\* the resolved query vector has norm zero.
C8_ZeroNormQueryRaises ==
    (Called("most_similar") /\ ZeroNormQuery) => ret.res.kind # "list"

\* The words of a ranking, or the error raised instead.
Ranking(res) ==
    IF res.kind = "list"
    THEN [kind |-> "list", words |-> [k \in 1..Len(res.pairs) |-> res.pairs[k].word]]
    ELSE [kind |-> res.kind, words |-> <<>>]

\* C9: for every vocabulary word w with a non-zero vector and every topn,
\* most_similar([w, w], topn) gives the same ordered sequence of words as
\* most_similar(w, topn).
C9_WordWithItselfSameRanking ==
    ( /\ Called("most_similar")
      /\ ret.arg.list
      /\ Len(ret.arg.ws) = 2
      /\ ret.arg.ws[1] = ret.arg.ws[2]
      /\ ArgWord \in DOMAIN embeddings_index
      /\ SumSq(get_emb(ArgWord).val) # 0 )
    => Ranking(ret.res) = Ranking(most_similar(Single(ArgWord), ret.topn).res)

\* most_similar([w, w], 2) returned a ranking of two words.
C9_Witness ==
    /\ Called("most_similar")
    /\ ret.arg.list
    /\ Len(ret.arg.ws) = 2
    /\ ret.arg.ws[1] = ret.arg.ws[2]
    /\ ret.res.kind = "list"
    /\ Len(ret.res.pairs) = 2
    /\ ret.res.pairs[1].word # ret.res.pairs[2].word
    /\ ~ret.res.pairs[1].score.nan

\* C10: on a loaded index, two calls of most_similar with the same query and
\* the same topn give identical ordered results, whatever calls were made
\* between them.
C10_SameCallSameResult ==
    ( /\ Called("most_similar")
      /\ memo # NoCall
      /\ memo.arg = ret.arg
      /\ memo.topn = ret.topn )
    => ret.res = memo.res

\* A call was made again after its outcome, a ranking, was kept.
C10_Witness ==
    /\ Called("most_similar")
    /\ memo # NoCall
    /\ memo.arg = ret.arg
    /\ memo.topn = ret.topn
    /\ ret.res.kind = "list"
    /\ Len(ret.res.pairs) = 2
    /\ ret.res = memo.res

\* C11: after the load, every get_emb, get_normed_emb and most_similar call,
\* single-word or list, succeeding or failing, leaves embeddings_index,
\* inv_index, glove_embeddings and glove_embeddings_normed as they were; the
\* in-place sum of a list query writes no row of the stored matrix.
C11_CallsLeaveIndexUnchanged ==
    [][ (pc \in {"ready", "returned"}) =>
            /\ embeddings_index' = embeddings_index
            /\ inv_index' = inv_index
            /\ glove_embeddings' = glove_embeddings
            /\ glove_norms' = glove_norms
            /\ glove_embeddings_normed' = glove_embeddings_normed ]_vars

\* A list query of two known, different words was summed in place and ranked,
\* and the matrix is the one the load stacked.
C11_Witness ==
    /\ Called("most_similar")
    /\ ret.arg.list
    /\ Len(ret.arg.ws) = 2
    /\ ret.arg.ws[1] # ret.arg.ws[2]
    /\ InVocabulary(ret.arg.ws)
    /\ ret.res.kind = "list"
    /\ glove_embeddings = embeddings_vectors

\* Line k of the file is malformed: it has a number of value tokens other than
\* the D of the first line, or a value token that is not numeric.
Malformed(k) ==
    \/ Len(file[k]) - 1 # Len(file[1]) - 1
    \/ ~CanParse(file[k])

\* C13: once the load loop has read a malformed line of the file, the load has
\* failed, with an error raised at that line or at an earlier one: it does not
\* go on to later lines, and it does not complete with a vocabulary.
C13_MalformedLineFailsAtItsLine ==
    \A k \in 1..Len(file) :
        (Malformed(k) /\ lineno >= k) =>
            /\ pc = "error"
            /\ error.kind # "none"
            /\ error.line \in 1..k

\* The words of the tokenizer whose id the guard `i >= MAX_NB_WORDS` lets pass.
KeptWords == { w \in DOMAIN word_index : word_index[w] < MAX_NB_WORDS }

\* C14: once the initializer cell has run over a file whose D is EMBEDDING_DIM,
\* it has come to its end, and for every tokenizer word with id i <
\* MAX_NB_WORDS row i of embedding_matrix is get_emb(word) when Glove has the
\* word and all zeros when it has not; the rows of no other id were written;
\* nb_words_in_matrix is the number of rows filled from Glove.
C14_MatrixRowsFromGlove ==
    (mpc \in {"done", "error"} /\ Len(file[1]) - 1 = EMBEDDING_DIM) =>
        /\ mpc = "done"
        /\ \A w \in KeptWords :
              /\ word_index[w] + 1 \in DOMAIN embedding_matrix
              /\ embedding_matrix[word_index[w] + 1] =
                     IF get_emb(w) = None
                     THEN Zeros(1, EMBEDDING_DIM)[1]
                     ELSE get_emb(w).val
        /\ \A r \in DOMAIN embedding_matrix :
              (\A w \in KeptWords : word_index[w] + 1 # r) =>
                  embedding_matrix[r] = Zeros(1, EMBEDDING_DIM)[1]
        /\ nb_words_in_matrix =
               Cardinality({ w \in KeptWords : get_emb(w) # None })

\* C16: for a vocabulary of ids 1..V, below MAX_NB_WORDS or not, the matrix
\* has nb_words = min(MAX_NB_WORDS, V) rows and every write
\* embedding_matrix[i] = embedding_vector the loop still has to make, and every
\* one it has made, uses a row 0 <= i < nb_words: no write raises IndexError.
C16_WritesInBounds ==
    /\ mpc = "loop" =>
          /\ Len(embedding_matrix) = nb_words
          /\ \A w \in items :
                (w \in KeptWords /\ get_emb(w) # None) =>
                    word_index[w] \in 0..(nb_words - 1)
    /\ mpc = "error" => error.kind # "IndexError"

\* C15: whatever a caller does with the arrays that get_emb and
\* get_normed_emb gave it, the stored rows stay the ones the load built: the
\* matrix is the stack of the parsed vectors, the normalised matrix is derived
\* from it, and get_emb(w) gives the vector parsed from the line of w.
C15_CallerCannotChangeRows ==
    (pc \in {"ready", "returned"}) =>
        /\ glove_embeddings = embeddings_vectors
        /\ glove_embeddings_normed =
               [k \in 1..Len(embeddings_vectors) |->
                   [v |-> embeddings_vectors[k], n2 |-> SumSq(embeddings_vectors[k])]]
        /\ \A w \in DOMAIN embeddings_index :
               get_emb(w).val = embeddings_vectors[embeddings_index[w] + 1]

\* What the call reader r is in gives when it runs alone on the index as it
\* is now, for the topn it used (any topn when the call failed before the
\* slice).
AloneResults(r) ==
    IF readers[r].op = "get_emb"
    THEN { get_emb(readers[r].arg.ws[1]) }
    ELSE { most_similar(readers[r].arg, t).res :
             t \in IF readers[r].topn = 0 THEN 1..MaxTopn ELSE {readers[r].topn} }

\* C12: under every interleaving of the steps of the readers, a call that has
\* finished gave the result the same call gives when it runs alone on the
\* loaded index, and the shared matrices are still the ones the load built.
C12_ReadersGetAloneResult ==
    /\ \A r \in Readers :
          readers[r].pc = "done" => AloneResults(r) = { readers[r].res }
    /\ pc = "ready" => glove_embeddings = embeddings_vectors

\* Reader r1 has the ranking of a list query of two known words while reader
\* r2 is in the middle of summing a list query of its own.
C12_Witness ==
    /\ readers["r1"].pc = "done"
    /\ readers["r1"].arg.list
    /\ Len(readers["r1"].arg.ws) = 2
    /\ readers["r1"].res.kind = "list"
    /\ readers["r2"].pc = "sum"
    /\ readers["r2"].arg.list
    /\ readers["r2"].k = 1
    /\ Len(readers["r2"].arg.ws) = 2
====
